---- MODULE Spec2Model ----
(***************************************************************************)
(* DeferredLayerUpdater (libs/hwui/DeferredLayerUpdater.cpp): a buffer of  *)
(* pending layer updates that apply() flushes to the Layer.                *)
(*                                                                         *)
(* The updater's fields keep their source names.  The Layer, the           *)
(* GLConsumer stream and the LayerRenderer routines are collaborators;     *)
(* they are modelled by the part of their state this file reads or writes. *)
(* Variables that do not exist in the program (calls, returned, ...) only  *)
(* record what apply() did, so that properties can talk about it.          *)
(***************************************************************************)
EXTENDS Integers, Sequences, FiniteSets, TLC

(* ------------------------------ bounds -------------------------------- *)
\* number of frames the producer enqueues in one behaviour
MaxFrames == 2
\* number of mutator calls in one behaviour
MaxCalls == 4
\* the log of an apply() records its pulls while it has fewer entries than this
MaxLog == 12
\* frames the stream's queue holds at most when the producer never rests
MaxQueue == 2
\* frame numbers of the never-resting producer run 1..FrameWrap and wrap
FrameWrap == 3

(* ----------------------------- values --------------------------------- *)
NULL == 0

\* alpha and mode that a NULL paint yields
DefaultAlpha == 255
DefaultMode == "SrcOver"

Rect(l, t, r, b) == [left |-> l, top |-> t, right |-> r, bottom |-> b]

\* the regions a caller passes to setDisplayList: two disjoint ones, one that
\* overlaps both, and an empty one
Regions == {Rect(0, 0, 1, 1), Rect(1, 1, 2, 2), Rect(0, 1, 2, 2), Rect(1, 1, 1, 1)}

\* the display lists a caller passes to setDisplayList
DisplayLists == {1}

\* paint descriptors: the NULL paint, and paints carrying alpha, mode, filter
NullPaint == [isNull |-> TRUE, alpha |-> 0, mode |-> "none", colorFilter |-> NULL]

Paints == {NullPaint,
           [isNull |-> FALSE, alpha |-> 64, mode |-> "Screen", colorFilter |-> 2]}

\* layer sizes a caller passes to setSize
Sizes == {<<1, 1>>, <<2, 1>>, <<1, 2>>}

\* sizes of the graphic buffers the producer enqueues
BufSizes == {<<1, 1>>, <<2, 1>>}

\* matrices a caller passes to setTransform (NULL clears)
Matrices == {NULL, 1}

NoBuffer == <<>>

\* the stream's current frame before any frame was acquired
NoFrame == [num |-> 0, buf |-> NoBuffer]

(* ------------------------------ Rect ---------------------------------- *)
isEmpty(r) == r.left >= r.right \/ r.top >= r.bottom

setEmpty == Rect(0, 0, 0, 0)

Min(a, b) == IF a < b THEN a ELSE b

Max(a, b) == IF a > b THEN a ELSE b

\* Rect::unionWith: the bounding box of both; an empty operand adds nothing
unionWith(a, r) ==
    IF ~isEmpty(r)
    THEN IF ~isEmpty(a)
         THEN Rect(Min(a.left, r.left), Min(a.top, r.top),
                   Max(a.right, r.right), Max(a.bottom, r.bottom))
         ELSE r
    ELSE a

(* ----------------------------- state ---------------------------------- *)
VARIABLES
    \* DeferredLayerUpdater fields
    mDisplayList, mSurfaceTexture, mTransform,
    mNeedsGLContextAttach, mUpdateTexImage,
    mWidth, mHeight, mBlend, mColorFilter, mAlpha, mMode, mDirtyRect,
    \* the Layer
    mLayer,
    \* the GLConsumer stream: queued frames, current frame, frames produced
    queue, current, produced,
    \* position inside apply() and the local frameNumber of doUpdateTexImage
    pc, frameNumber,
    \* record of what happened
    calls,        \* collaborator calls made by the current or last apply()
    returned,     \* return value of the last completed apply()
    applySeq,     \* 0 once a mutator was called; an entry into apply() makes it
                  \* 1, or 2 if it is 1
    attachCount,  \* attachToContext calls so far
    covered,      \* unit cells covered by the regions set since the last apply()
    lastPaint,    \* argument of the last setPaint, <<>> if none
    nCalls,       \* mutator calls so far
    \* reference counts
    refs,         \* references the updater holds on each color filter
    layerRefs,    \* the reference count of the layer in the resource cache
    assignTrace,  \* the new filter's count after each step of the last setPaint
    marks         \* length of the latest run of updateTexImage() calls with no
                  \* refresh in between

updaterVars == <<mDisplayList, mSurfaceTexture, mTransform, mNeedsGLContextAttach,
                 mUpdateTexImage, mWidth, mHeight, mBlend, mColorFilter, mAlpha,
                 mMode, mDirtyRect>>

streamVars == <<queue, current, produced>>

recordVars == <<calls, returned, applySeq, attachCount, covered, lastPaint, nCalls>>

lifeVars == <<refs, layerRefs, assignTrace, marks>>

vars == <<updaterVars, mLayer, streamVars, pc, frameNumber, recordVars, lifeVars>>

\* the color filter objects
Filters == {1, 2}

\* SkSafeRef: one more reference on obj, if there is an object
SkSafeRef(counts, obj) ==
    IF obj # NULL THEN [counts EXCEPT ![obj] = @ + 1] ELSE counts

\* SkSafeUnref: one reference less on obj, if there is an object
SkSafeUnref(counts, obj) ==
    IF obj # NULL THEN [counts EXCEPT ![obj] = @ - 1] ELSE counts

\* SkRefCnt_SafeAssign(dst, src): src is referenced, then dst is released;
\* trace is the count of src after each of the two steps
SkRefCnt_SafeAssign(counts, dst, src) ==
    LET retained == SkSafeRef(counts, src)
        released == SkSafeUnref(retained, dst)
    IN [refs |-> released,
        trace |-> IF src # NULL THEN <<retained[src], released[src]>> ELSE <<>>]

\* the layer as it is handed to the constructor
InitialLayer == [width |-> 1, height |-> 1, blend |-> FALSE,
                 colorFilter |-> 1, alpha |-> 128, mode |-> "Multiply",
                 transform |-> NULL,
                 deferredList |-> NULL, deferredRect |-> setEmpty,
                 texArgs |-> <<>>]

\* the constructor taking the defaults in place of the layer's alpha and mode
Init_noSnapshot ==
    /\ mLayer = InitialLayer
    /\ mDisplayList = NULL
    /\ mSurfaceTexture = NULL
    /\ mTransform = NULL
    /\ mNeedsGLContextAttach = FALSE
    /\ mUpdateTexImage = FALSE
    /\ mWidth = InitialLayer.width
    /\ mHeight = InitialLayer.height
    /\ mBlend = InitialLayer.blend
    /\ mColorFilter = InitialLayer.colorFilter
    /\ mAlpha = DefaultAlpha
    /\ mMode = DefaultMode
    /\ mDirtyRect = setEmpty
    /\ queue = <<>>
    /\ current = NoFrame
    /\ produced = 0
    /\ pc = "idle"
    /\ frameNumber = 0
    /\ calls = <<>>
    /\ returned = "none"
    /\ applySeq = 0
    /\ attachCount = 0
    /\ covered = {}
    /\ lastPaint = <<>>
    /\ nCalls = 0
    /\ refs = SkSafeRef([f \in Filters |-> 0], InitialLayer.colorFilter)
    /\ layerRefs = 1
    /\ assignTrace = <<>>
    /\ marks = 0

\* DeferredLayerUpdater::DeferredLayerUpdater
Init ==
    /\ mLayer = InitialLayer
    /\ mDisplayList = NULL
    /\ mSurfaceTexture = NULL
    /\ mTransform = NULL
    /\ mNeedsGLContextAttach = FALSE
    /\ mUpdateTexImage = FALSE
    /\ mWidth = InitialLayer.width
    /\ mHeight = InitialLayer.height
    /\ mBlend = InitialLayer.blend
    /\ mColorFilter = InitialLayer.colorFilter
    /\ mAlpha = InitialLayer.alpha
    /\ mMode = InitialLayer.mode
    /\ mDirtyRect = setEmpty
    /\ queue = <<>>
    /\ current = NoFrame
    /\ produced = 0
    /\ pc = "idle"
    /\ frameNumber = 0
    /\ calls = <<>>
    /\ returned = "none"
    /\ applySeq = 0
    /\ attachCount = 0
    /\ covered = {}
    /\ lastPaint = <<>>
    /\ nCalls = 0
    /\ refs = SkSafeRef([f \in Filters |-> 0], InitialLayer.colorFilter)
    /\ layerRefs = 1
    /\ assignTrace = <<>>
    /\ marks = 0


(* ------------------------ collaborators -------------------------------- *)
\* OpenGLRenderer::getAlphaAndModeDirect: the paint's alpha and mode, or the
\* defaults when there is no paint
getAlphaAndModeDirect(paint) ==
    IF paint.isNull
    THEN [alpha |-> DefaultAlpha, mode |-> DefaultMode]
    ELSE [alpha |-> paint.alpha, mode |-> paint.mode]

\* LayerRenderer::resizeLayer: on success the layer has the new size, on
\* failure it keeps its size; ok is the outcome
resizeLayer(layer, width, height, ok) ==
    IF ok THEN [layer EXCEPT !.width = width, !.height = height] ELSE layer

\* Layer::updateDeferred: the layer records the display list and the dirty rect
updateDeferred(layer, displayList, left, top, right, bottom) ==
    [layer EXCEPT !.deferredList = displayList,
                  !.deferredRect = Rect(left, top, right, bottom)]

\* LayerRenderer::updateTextureLayer: the layer records the arguments
updateTextureLayer(layer, width, height, isOpaque, forceFilter, frame) ==
    [layer EXCEPT !.texArgs = <<[width |-> width, height |-> height,
                                 isOpaque |-> isOpaque, forceFilter |-> forceFilter,
                                 frame |-> frame]>>]

\* GLConsumer::updateTexImage: acquires the oldest queued frame and makes it
\* current; with nothing queued it either reports that (an error) or returns
\* NO_ERROR with the current frame unchanged, as whenEmpty says
GLConsumer_updateTexImage(q, cur, whenEmpty) ==
    IF q # <<>>
    THEN [err |-> "NO_ERROR", queue |-> Tail(q), current |-> Head(q)]
    ELSE [err |-> whenEmpty, queue |-> q, current |-> cur]

PullResults == {"NO_ERROR", "NO_BUFFER"}

\* the producer side of the stream enqueues one more frame
queueBuffer(w, h) ==
    /\ pc # "destroyed"
    /\ produced < MaxFrames
    /\ produced' = produced + 1
    /\ queue' = Append(queue, [num |-> produced + 1, buf |-> <<w, h>>])
    /\ UNCHANGED <<updaterVars, mLayer, current, pc, frameNumber, recordVars,
                   lifeVars>>

\* a producer that never rests: it enqueues whenever the queue has room, with
\* frame numbers that wrap (consecutive frames always differ in number)
queueBuffer_steady(w, h) ==
    /\ Len(queue) < MaxQueue
    /\ produced' = (produced % FrameWrap) + 1
    /\ queue' = Append(queue, [num |-> (produced % FrameWrap) + 1, buf |-> <<w, h>>])
    /\ UNCHANGED <<updaterVars, mLayer, current, pc, frameNumber, recordVars,
                   lifeVars>>

(* ----------------------------- mutators -------------------------------- *)
\* a mutator runs between apply() calls, never inside one
MutatorCall ==
    /\ pc = "idle"
    /\ nCalls < MaxCalls
    /\ nCalls' = nCalls + 1
    /\ applySeq' = 0

\* setPaint writing the paint through to the layer at once
setPaint_immediate(paint) ==
    /\ MutatorCall
    /\ mAlpha' = getAlphaAndModeDirect(paint).alpha
    /\ mMode' = getAlphaAndModeDirect(paint).mode
    /\ mColorFilter' = (IF ~paint.isNull THEN paint.colorFilter ELSE NULL)
    /\ mLayer' = [mLayer EXCEPT !.colorFilter = mColorFilter',
                                !.alpha = mAlpha', !.mode = mMode']
    /\ refs' = SkRefCnt_SafeAssign(refs, mColorFilter, mColorFilter').refs
    /\ assignTrace' = SkRefCnt_SafeAssign(refs, mColorFilter, mColorFilter').trace
    /\ lastPaint' = <<paint>>
    /\ UNCHANGED <<mDisplayList, mSurfaceTexture, mTransform, mNeedsGLContextAttach,
                   mUpdateTexImage, mWidth, mHeight, mBlend, mDirtyRect,
                   streamVars, pc, frameNumber,
                   calls, returned, attachCount, covered,
                   layerRefs, marks>>

\* setPaint storing the filter pointer without exchanging the references
setPaint_plainAssign(paint) ==
    /\ MutatorCall
    /\ mAlpha' = getAlphaAndModeDirect(paint).alpha
    /\ mMode' = getAlphaAndModeDirect(paint).mode
    /\ mColorFilter' = (IF ~paint.isNull THEN paint.colorFilter ELSE NULL)
    /\ assignTrace' = <<>>
    /\ lastPaint' = <<paint>>
    /\ UNCHANGED <<mDisplayList, mSurfaceTexture, mTransform, mNeedsGLContextAttach,
                   mUpdateTexImage, mWidth, mHeight, mBlend, mDirtyRect,
                   mLayer, streamVars, pc, frameNumber,
                   calls, returned, attachCount, covered,
                   refs, layerRefs, marks>>

\* DeferredLayerUpdater::setPaint
setPaint(paint) ==
    /\ MutatorCall
    /\ mAlpha' = getAlphaAndModeDirect(paint).alpha
    /\ mMode' = getAlphaAndModeDirect(paint).mode
    /\ LET colorFilter == IF ~paint.isNull THEN paint.colorFilter ELSE NULL
           assigned == SkRefCnt_SafeAssign(refs, mColorFilter, colorFilter)
       IN /\ mColorFilter' = colorFilter
          /\ refs' = assigned.refs
          /\ assignTrace' = assigned.trace
    /\ lastPaint' = <<paint>>
    /\ UNCHANGED <<mDisplayList, mSurfaceTexture, mTransform, mNeedsGLContextAttach,
                   mUpdateTexImage, mWidth, mHeight, mBlend, mDirtyRect,
                   mLayer, streamVars, pc, frameNumber,
                   calls, returned, attachCount, covered,
                   layerRefs, marks>>

\* the unit cells a rectangle covers
Cells(r) == {<<x, y>> : x \in r.left..(r.right - 1), y \in r.top..(r.bottom - 1)}

\* setDisplayList with the union forgotten: the last region replaces the rest
setDisplayList_overwrite(displayList, left, top, right, bottom) ==
    /\ MutatorCall
    /\ mDisplayList' = displayList
    /\ mDirtyRect' = Rect(left, top, right, bottom)
    /\ covered' = covered \cup Cells(Rect(left, top, right, bottom))
    /\ UNCHANGED <<mSurfaceTexture, mTransform, mNeedsGLContextAttach,
                   mUpdateTexImage, mWidth, mHeight, mBlend, mColorFilter, mAlpha, mMode,
                   mLayer, streamVars, pc, frameNumber,
                   calls, returned, attachCount, lastPaint,
                   lifeVars>>

\* DeferredLayerUpdater::setDisplayList
setDisplayList(displayList, left, top, right, bottom) ==
    /\ MutatorCall
    /\ mDisplayList' = displayList
    /\ mDirtyRect' = (IF isEmpty(mDirtyRect)
                      THEN Rect(left, top, right, bottom)
                      ELSE unionWith(mDirtyRect, Rect(left, top, right, bottom)))
    /\ covered' = covered \cup Cells(Rect(left, top, right, bottom))
    /\ UNCHANGED <<mSurfaceTexture, mTransform, mNeedsGLContextAttach,
                   mUpdateTexImage, mWidth, mHeight, mBlend, mColorFilter, mAlpha, mMode,
                   mLayer, streamVars, pc, frameNumber,
                   calls, returned, attachCount, lastPaint,
                   lifeVars>>

\* DeferredLayerUpdater::setSize
setSize(width, height) ==
    /\ MutatorCall
    /\ mWidth' = width
    /\ mHeight' = height
    /\ UNCHANGED <<mDisplayList, mSurfaceTexture, mTransform, mNeedsGLContextAttach,
                   mUpdateTexImage, mBlend, mColorFilter, mAlpha, mMode, mDirtyRect,
                   mLayer, streamVars, pc, frameNumber,
                   calls, returned, attachCount, covered, lastPaint,
                   lifeVars>>

\* DeferredLayerUpdater::setBlend
setBlend(blend) ==
    /\ MutatorCall
    /\ mBlend' = blend
    /\ UNCHANGED <<mDisplayList, mSurfaceTexture, mTransform, mNeedsGLContextAttach,
                   mUpdateTexImage, mWidth, mHeight, mColorFilter, mAlpha, mMode,
                   mDirtyRect, mLayer, streamVars, pc, frameNumber,
                   calls, returned, attachCount, covered, lastPaint,
                   lifeVars>>

\* DeferredLayerUpdater::setTransform
setTransform(matrix) ==
    /\ MutatorCall
    /\ mTransform' = matrix
    /\ UNCHANGED <<mDisplayList, mSurfaceTexture, mNeedsGLContextAttach,
                   mUpdateTexImage, mWidth, mHeight, mBlend, mColorFilter, mAlpha, mMode,
                   mDirtyRect, mLayer, streamVars, pc, frameNumber,
                   calls, returned, attachCount, covered, lastPaint,
                   lifeVars>>

\* the stream handle
Stream == 1

\* DeferredLayerUpdater::setSurfaceTexture: the first association records the
\* stream and asks for an attach; the stream is then kept for good
setSurfaceTexture ==
    /\ MutatorCall
    /\ mSurfaceTexture = NULL
    /\ mSurfaceTexture' = Stream
    /\ mNeedsGLContextAttach' = TRUE
    /\ UNCHANGED <<mDisplayList, mTransform, mUpdateTexImage, mWidth, mHeight, mBlend,
                   mColorFilter, mAlpha, mMode, mDirtyRect,
                   mLayer, streamVars, pc, frameNumber,
                   calls, returned, attachCount, covered, lastPaint,
                   lifeVars>>

\* DeferredLayerUpdater::updateTexImage
updateTexImage ==
    /\ MutatorCall
    /\ mUpdateTexImage' = TRUE
    /\ marks' = (IF mUpdateTexImage THEN marks + 1 ELSE 1)
    /\ UNCHANGED <<mDisplayList, mSurfaceTexture, mTransform, mNeedsGLContextAttach,
                   mWidth, mHeight, mBlend, mColorFilter, mAlpha, mMode, mDirtyRect,
                   mLayer, streamVars, pc, frameNumber,
                   calls, returned, attachCount, covered, lastPaint,
                   refs, layerRefs, assignTrace>>

(* ------------------------------ apply ---------------------------------- *)
\* apply() with the setAlpha call forgotten
applyShared_filterOnly(layer) ==
    [layer EXCEPT !.colorFilter = mColorFilter]

\* apply(), lines 68-69: the shared properties are written to the layer
applyShared(layer) ==
    [layer EXCEPT !.colorFilter = mColorFilter, !.alpha = mAlpha, !.mode = mMode]

\* apply() with the two branches tested in the other order
applyBranch_streamFirst ==
    IF mSurfaceTexture # NULL THEN "surfaceTexture"
    ELSE IF mDisplayList # NULL THEN "displayList"
    ELSE "none"

\* apply() with a plain else in place of the test of mSurfaceTexture
applyBranch_noStreamTest ==
    IF mDisplayList # NULL THEN "displayList" ELSE "surfaceTexture"

\* apply(), lines 71 and 81: the content branch this call takes
applyBranch ==
    IF mDisplayList # NULL THEN "displayList"
    ELSE IF mSurfaceTexture # NULL THEN "surfaceTexture"
    ELSE "none"

\* apply() comparing the widths only
applyNeedsResize_widthOnly(layer) ==
    mWidth # layer.width

\* apply(), line 72: is a resize requested
applyNeedsResize(layer) ==
    mWidth # layer.width \/ mHeight # layer.height

\* apply() dropping the result of resizeLayer
applySuccess_always(needResize, resizeOk) ==
    TRUE

\* apply(), lines 66 and 73: the value apply() returns
applySuccess(needResize, resizeOk) ==
    IF needResize THEN resizeOk ELSE TRUE

\* apply() leaving mNeedsGLContextAttach set
applyAttachFlag_kept == TRUE

\* apply() without the attach
applyAttachCalls_never == <<>>

\* apply(), lines 82-85: the attachToContext call of the external-stream branch
applyAttachCalls ==
    IF mNeedsGLContextAttach THEN <<"attachToContext">> ELSE <<>>

\* apply(), line 83: mNeedsGLContextAttach after the external-stream branch
applyAttachFlag == FALSE

\* apply() leaving mUpdateTexImage set
applyUpdateFlag_kept == TRUE

\* apply(), line 87: mUpdateTexImage after the external-stream branch
applyUpdateFlag == FALSE

\* apply() loading the transform without clearing it
applyTransformAndReturn_kept(layer, callsSoFar) ==
    /\ mLayer' = (IF mTransform # NULL
                  THEN [layer EXCEPT !.transform = mTransform]
                  ELSE layer)
    /\ calls' = callsSoFar \o (IF mTransform # NULL THEN <<"transform.load">> ELSE <<>>)
    /\ mTransform' = mTransform
    /\ returned' = "true"
    /\ pc' = "idle"
    /\ frameNumber' = 0

\* apply(), lines 90-95: the pending transform is loaded and cleared, and
\* apply() returns success (no resize was requested on this path)
applyTransformAndReturn(layer, callsSoFar) ==
    /\ mLayer' = (IF mTransform # NULL
                  THEN [layer EXCEPT !.transform = mTransform]
                  ELSE layer)
    /\ calls' = callsSoFar \o (IF mTransform # NULL THEN <<"transform.load">> ELSE <<>>)
    /\ mTransform' = NULL
    /\ returned' = "true"
    /\ pc' = "idle"
    /\ frameNumber' = 0

\* doUpdateTexImage(), lines 99 and 108: one pull from the stream
doUpdateTexImage_pull(whenEmpty) ==
    GLConsumer_updateTexImage(queue, current, whenEmpty)

\* the log entry of a pull
PullCall(pull) ==
    IF pull.err = "NO_ERROR" THEN "updateTexImage=NO_ERROR" ELSE "updateTexImage=NO_BUFFER"

\* doUpdateTexImage() comparing the widths only
doUpdateTexImage_update_widthOnly(layer, frame) ==
    LET buffer == frame.buf
        forceFilter == IF buffer # NoBuffer THEN mWidth # buffer[1] ELSE FALSE
    IN updateTextureLayer(layer, mWidth, mHeight, ~mBlend, forceFilter, frame.num)

\* doUpdateTexImage(), lines 115-132: the force-filter flag is computed from
\* the current buffer and the texture layer is updated
doUpdateTexImage_update(layer, frame) ==
    LET buffer == frame.buf
        forceFilter == IF buffer # NoBuffer
                       THEN mWidth # buffer[1] \/ mHeight # buffer[2]
                       ELSE FALSE
    IN updateTextureLayer(layer, mWidth, mHeight, ~mBlend, forceFilter, frame.num)

\* DeferredLayerUpdater::apply, up to its return or to the drain loop of
\* doUpdateTexImage.  resizeOk is what resizeLayer returns if it is called,
\* whenEmpty what the stream answers to a pull that finds nothing queued.
apply(resizeOk, whenEmpty) ==
    /\ pc = "idle"
    /\ applySeq' = (IF applySeq = 1 THEN 2 ELSE 1)
    /\ LET shared == applyShared(mLayer)
           sharedCalls == <<"setColorFilter", "setAlpha">>
       IN
       IF applyBranch = "displayList"
       THEN LET needResize == applyNeedsResize(shared)
                success == applySuccess(needResize, resizeOk)
                resized == IF needResize
                           THEN resizeLayer(shared, mWidth, mHeight, resizeOk)
                           ELSE shared
                resizeCalls == IF ~needResize THEN <<>>
                               ELSE IF resizeOk THEN <<"resizeLayer=true">>
                               ELSE <<"resizeLayer=false">>
                blended == [resized EXCEPT !.blend = mBlend]
            IN /\ mLayer' = updateDeferred(blended, mDisplayList, mDirtyRect.left,
                                           mDirtyRect.top, mDirtyRect.right,
                                           mDirtyRect.bottom)
               /\ calls' = sharedCalls \o resizeCalls
                           \o <<"setBlend", "updateProperties", "updateDeferred">>
               /\ mDirtyRect' = setEmpty
               /\ mDisplayList' = NULL
               /\ covered' = {}
               /\ returned' = (IF success THEN "true" ELSE "false")
               /\ UNCHANGED <<mSurfaceTexture, mTransform, mNeedsGLContextAttach,
                              mUpdateTexImage, streamVars, pc, frameNumber, attachCount>>
       ELSE IF applyBranch = "surfaceTexture"
       THEN LET attachCalls == applyAttachCalls
                pull == doUpdateTexImage_pull(whenEmpty)
                pulled == sharedCalls \o attachCalls \o <<PullCall(pull)>>
            IN /\ mNeedsGLContextAttach' = (IF mNeedsGLContextAttach
                                            THEN applyAttachFlag
                                            ELSE mNeedsGLContextAttach)
               /\ attachCount' = attachCount + Len(attachCalls)
               /\ mUpdateTexImage' = (IF mUpdateTexImage
                                      THEN applyUpdateFlag
                                      ELSE mUpdateTexImage)
               /\ UNCHANGED <<mDisplayList, mSurfaceTexture, mDirtyRect, covered, produced>>
               /\ IF mUpdateTexImage
                  THEN /\ queue' = pull.queue
                       /\ current' = pull.current
                       /\ IF pull.err = "NO_ERROR"
                          THEN /\ frameNumber' = pull.current.num
                               /\ pc' = "drain"
                               /\ mLayer' = shared
                               /\ calls' = pulled
                               /\ returned' = "running"
                               /\ UNCHANGED mTransform
                          ELSE applyTransformAndReturn(shared, pulled)
                  ELSE /\ UNCHANGED <<queue, current>>
                       /\ applyTransformAndReturn(shared, sharedCalls \o attachCalls)
       ELSE /\ mLayer' = shared
            /\ calls' = sharedCalls
            /\ returned' = "true"
            /\ UNCHANGED <<mDisplayList, mSurfaceTexture, mTransform,
                           mNeedsGLContextAttach, mUpdateTexImage, mDirtyRect,
                           streamVars, pc, frameNumber, attachCount, covered>>
    /\ UNCHANGED <<mWidth, mHeight, mBlend, mColorFilter, mAlpha, mMode, lastPaint, nCalls,
                   lifeVars>>

\* doUpdateTexImage() without the drain loop: the frame of the first pull is
\* the one that is uploaded
doUpdateTexImage_noDrain(whenEmpty) ==
    /\ pc = "drain"
    /\ applyTransformAndReturn(doUpdateTexImage_update(mLayer, current),
                               Append(calls, "updateTextureLayer"))
    /\ UNCHANGED <<mDisplayList, mSurfaceTexture, mNeedsGLContextAttach, mUpdateTexImage,
                   mWidth, mHeight, mBlend, mColorFilter, mAlpha, mMode, mDirtyRect,
                   queue, current,
                   produced, applySeq, attachCount, covered, lastPaint, nCalls,
                   lifeVars>>

\* doUpdateTexImage(), lines 108-110: the loop goes on when the pull succeeded
\* and the frame number is not the one recorded
doUpdateTexImage_continues(pull) ==
    pull.err = "NO_ERROR" /\ pull.current.num # frameNumber

\* doUpdateTexImage(), lines 108-113: one more pull of the drain loop; when
\* the loop ends, the rest of doUpdateTexImage and of apply() follows
doUpdateTexImage_loop(whenEmpty) ==
    /\ pc = "drain"
    /\ LET pull == doUpdateTexImage_pull(whenEmpty)
           pulled == IF Len(calls) < MaxLog
                     THEN Append(calls, PullCall(pull))
                     ELSE calls
       IN /\ queue' = pull.queue
          /\ current' = pull.current
          /\ IF doUpdateTexImage_continues(pull)
             THEN /\ frameNumber' = pull.current.num
                  /\ calls' = pulled
                  /\ UNCHANGED <<mLayer, mTransform, returned, pc>>
             ELSE applyTransformAndReturn(
                      doUpdateTexImage_update(mLayer, pull.current),
                      Append(pulled, "updateTextureLayer"))
    /\ UNCHANGED <<mDisplayList, mSurfaceTexture, mNeedsGLContextAttach, mUpdateTexImage,
                   mWidth, mHeight, mBlend, mColorFilter, mAlpha, mMode, mDirtyRect,
                   produced, applySeq, attachCount, covered, lastPaint, nCalls,
                   lifeVars>>

(* ---------------------------- destructor ------------------------------- *)
\* DeferredLayerUpdater::~DeferredLayerUpdater
destroy ==
    /\ pc = "idle"
    /\ pc' = "destroyed"
    /\ refs' = SkSafeUnref(refs, mColorFilter)
    /\ layerRefs' = layerRefs - 1
    /\ UNCHANGED <<updaterVars, mLayer, streamVars, frameNumber, recordVars,
                   assignTrace, marks>>

(* --------------------------- specification ----------------------------- *)
Next ==
    \/ \E paint \in Paints : setPaint(paint)
    \/ \E dl \in DisplayLists, r \in Regions :
           setDisplayList(dl, r.left, r.top, r.right, r.bottom)
    \/ \E s \in Sizes : setSize(s[1], s[2])
    \/ \E b \in BOOLEAN : setBlend(b)
    \/ \E m \in Matrices : setTransform(m)
    \/ setSurfaceTexture
    \/ updateTexImage
    \/ \E s \in BufSizes : queueBuffer(s[1], s[2])
    \/ \E ok \in BOOLEAN, e \in PullResults : apply(ok, e)
    \/ \E e \in PullResults : doUpdateTexImage_loop(e)
    \/ destroy

Spec == Init /\ [][Next]_vars

\* the external-stream path against a producer that never rests; the thread
\* that runs apply() keeps running the drain loop once it is in it
NextDrain ==
    \/ setSurfaceTexture
    \/ updateTexImage
    \/ \E e \in PullResults : apply(TRUE, e)
    \/ \E e \in PullResults : doUpdateTexImage_loop(e)
    \/ \E sz \in BufSizes : queueBuffer_steady(sz[1], sz[2])

SpecDrain ==
    /\ Init
    /\ [][NextDrain]_vars
    /\ WF_vars(\E e \in PullResults : doUpdateTexImage_loop(e))

(* ------------------------ vocabulary of the claims --------------------- *)
Called(log, op) == \E i \in 1..Len(log) : log[i] = op

Count(log, op) == Cardinality({i \in 1..Len(log) : log[i] = op})

Pulls(log) == Count(log, "updateTexImage=NO_ERROR") + Count(log, "updateTexImage=NO_BUFFER")

\* the first pull in the log returned NO_ERROR
FirstPullSucceeded(log) ==
    \E i \in 1..Len(log) :
        /\ log[i] = "updateTexImage=NO_ERROR"
        /\ \A j \in 1..(i - 1) : log[j] # "updateTexImage=NO_BUFFER"

\* a step that enters apply()
ApplyEnters == applySeq' # applySeq /\ applySeq' # 0

\* a step in which apply() returns
ApplyReturns == pc' = "idle" /\ (ApplyEnters \/ pc = "drain")

\* no mutator was called since the last apply() was entered
untouched == applySeq # 0

MinOf(S) == CHOOSE m \in S : \A x \in S : m <= x

MaxOf(S) == CHOOSE m \in S : \A x \in S : m >= x

\* the bounding box of a non-empty set of unit cells
BoundingBox(cells) ==
    Rect(MinOf({c[1] : c \in cells}), MinOf({c[2] : c \in cells}),
         MaxOf({c[1] : c \in cells}) + 1, MaxOf({c[2] : c \in cells}) + 1)

\* alpha, mode and filter that the last setPaint asked for (the constructor's
\* snapshot of the layer if there was none)
RequestedPaint ==
    IF lastPaint = <<>>
    THEN [colorFilter |-> InitialLayer.colorFilter, alpha |-> InitialLayer.alpha,
          mode |-> InitialLayer.mode]
    ELSE IF lastPaint[1].isNull
    THEN [colorFilter |-> NULL, alpha |-> DefaultAlpha, mode |-> DefaultMode]
    ELSE [colorFilter |-> lastPaint[1].colorFilter, alpha |-> lastPaint[1].alpha,
          mode |-> lastPaint[1].mode]

(* ------------------------------- claims -------------------------------- *)
\* C1: an apply() that finds a display list pending passes to updateDeferred
\* the bounding box of the union of the regions set since the previous
\* apply() (an empty rectangle if they cover nothing), and leaves mDirtyRect
\* empty, so the regions of the next round are accumulated from empty.
C1_DirtyRectIsUnionBoundingBox ==
    [][(ApplyEnters /\ mDisplayList # NULL) =>
          /\ Called(calls', "updateDeferred")
          /\ IF covered # {}
             THEN mLayer'.deferredRect = BoundingBox(covered)
             ELSE isEmpty(mLayer'.deferredRect)
          /\ isEmpty(mDirtyRect')]_vars

\* C1 witness: two regions whose bounding box is larger than either were set,
\* apply() passed that box on and emptied the accumulator
C1_Witness ==
    /\ mLayer.deferredRect = Rect(0, 0, 2, 2)
    /\ mLayer.deferredList # NULL
    /\ isEmpty(mDirtyRect)
    /\ mDisplayList = NULL

\* C2: an apply() whose resizeLayer call failed made none of the calls
\* setBlend, updateProperties, updateDeferred.
C2_FailedResizeSkipsContentUpdate ==
    Called(calls, "resizeLayer=false") =>
        /\ ~Called(calls, "setBlend")
        /\ ~Called(calls, "updateProperties")
        /\ ~Called(calls, "updateDeferred")

\* C3: an apply() whose resizeLayer call failed leaves the pending display
\* list and the dirty rectangle as they were.
C3_FailedResizeKeepsPending ==
    [][(ApplyEnters /\ Called(calls', "resizeLayer=false")) =>
          /\ mDisplayList' = mDisplayList
          /\ mDisplayList' # NULL
          /\ mDirtyRect' = mDirtyRect]_vars

\* C4: apply() returns false exactly when a display list was pending, the
\* sizes differed and resizeLayer failed; every other apply() returns true.
C4_ReturnsFalseIffResizeFailed ==
    [][ApplyReturns =>
          /\ returned' \in {"true", "false"}
          /\ returned' = "false" <=>
                /\ ApplyEnters
                /\ mDisplayList # NULL
                /\ (mWidth # mLayer.width \/ mHeight # mLayer.height)
                /\ Called(calls', "resizeLayer=false")]_vars

\* C4 witness: an apply() has returned false after a failed resize
C4_Witness ==
    /\ returned = "false"
    /\ Called(calls, "resizeLayer=false")
    /\ pc = "idle"

\* C5: resizeLayer is called by an apply() exactly when a display list is
\* pending and mWidth or mHeight differs from the layer's width or height at
\* that moment; no other step calls it.
C5_ResizeOnlyOnMismatchAtApply ==
    [][/\ ApplyEnters =>
             ((Called(calls', "resizeLayer=true") \/ Called(calls', "resizeLayer=false"))
              <=> (/\ mDisplayList # NULL
                   /\ (mWidth # mLayer.width \/ mHeight # mLayer.height)))
       /\ ~ApplyEnters =>
             /\ Count(calls', "resizeLayer=true") = Count(calls, "resizeLayer=true")
             /\ Count(calls', "resizeLayer=false") = Count(calls, "resizeLayer=false")
             /\ mLayer'.width = mLayer.width
             /\ mLayer'.height = mLayer.height]_vars

\* C5 witness: only the height differed, resizeLayer was called and gave the
\* layer the requested size
C5_Witness ==
    /\ Called(calls, "resizeLayer=true")
    /\ mLayer.width = InitialLayer.width
    /\ mLayer.height # InitialLayer.height
    /\ mLayer.height = mHeight

\* C6: when apply() returns, whichever branch it took and whatever it
\* returns, the layer's color filter, alpha and mode are those of the last
\* setPaint (a NULL paint: no filter, default alpha and mode), or those the
\* constructor read from the layer if setPaint was never called.
C6_SharedPropertiesAlwaysApplied ==
    [][ApplyReturns =>
          /\ mLayer'.colorFilter = RequestedPaint.colorFilter
          /\ mLayer'.alpha = RequestedPaint.alpha
          /\ mLayer'.mode = RequestedPaint.mode]_vars

\* C6 witness: setPaint(NULL) was followed by an apply() that failed its
\* resize, and the layer has no filter and the default alpha and mode
C6_Witness ==
    /\ lastPaint = <<NullPaint>>
    /\ returned = "false"
    /\ mLayer.colorFilter = NULL
    /\ mLayer.alpha = DefaultAlpha
    /\ mLayer.mode = DefaultMode

\* C7: an apply() that finds a display list pending performs the display-list
\* update and none of attachToContext, updateTexImage, updateTextureLayer and
\* the transform load, and leaves the stream and its flags alone; an apply()
\* performs those steps only if it found no display list pending.
C7_OneBranchDisplayListFirst ==
    [][/\ (ApplyEnters /\ mDisplayList # NULL) =>
             /\ Called(calls', "updateDeferred")
             /\ ~Called(calls', "attachToContext")
             /\ Pulls(calls') = 0
             /\ ~Called(calls', "updateTextureLayer")
             /\ ~Called(calls', "transform.load")
             /\ pc' = "idle"
             /\ UNCHANGED <<streamVars, attachCount>>
             /\ mLayer'.transform = mLayer.transform
             /\ mLayer'.texArgs = mLayer.texArgs
       /\ (ApplyEnters /\ (\/ Called(calls', "attachToContext")
                           \/ Pulls(calls') > 0
                           \/ Called(calls', "transform.load")
                           \/ pc' = "drain")) =>
             /\ mDisplayList = NULL
             /\ ~Called(calls', "updateDeferred")
             /\ ~Called(calls', "updateProperties")
       /\ pc = "drain" => ~Called(calls', "updateDeferred")]_vars

\* C7 witness: apply() has run the display-list update while a stream was
\* associated with its attach flag, refresh flag and a transform pending
C7_Witness ==
    /\ Called(calls, "updateDeferred")
    /\ mSurfaceTexture # NULL
    /\ mNeedsGLContextAttach
    /\ mUpdateTexImage
    /\ mTransform # NULL
    /\ queue # <<>>

\* C8: attachToContext is called once: by the first apply() that takes the
\* external-stream branch after the stream was associated, and by no later
\* apply().
C8_AttachIsOneShot ==
    [][/\ attachCount' <= 1
       /\ (ApplyEnters /\ mDisplayList = NULL /\ mSurfaceTexture # NULL) =>
             /\ attachCount' = 1
             /\ Called(calls', "attachToContext") <=> attachCount = 0
             /\ ~mNeedsGLContextAttach'
       /\ ~(ApplyEnters /\ mDisplayList = NULL /\ mSurfaceTexture # NULL) =>
             /\ attachCount' = attachCount
             /\ Count(calls', "attachToContext") <= Count(calls, "attachToContext")]_vars

\* C8 witness: a second external-stream apply() has run, without attaching
C8_Witness ==
    /\ attachCount = 1
    /\ mSurfaceTexture # NULL
    /\ ~Called(calls, "attachToContext")
    /\ Called(calls, "setAlpha")
    /\ ~Called(calls, "updateDeferred")

\* a step in which a stream refresh of apply() stops pulling
RefreshStops ==
    \/ pc = "drain" /\ pc' = "idle"
    \/ /\ ApplyEnters
       /\ mDisplayList = NULL
       /\ mSurfaceTexture # NULL
       /\ mUpdateTexImage
       /\ pc' = "idle"

\* C9: when a stream refresh stops pulling, no frame is left in the queue and
\* the stream's current frame is the newest frame produced; after a
\* successful first pull that frame is the one handed to updateTextureLayer.
C9_DrainEndsOnNewestFrame ==
    [][RefreshStops =>
          /\ queue' = <<>>
          /\ current'.num = produced'
          /\ pc = "drain" => mLayer'.texArgs[1].frame = produced']_vars

\* C9 witness: frames 1 and 2 were queued, the refresh pulled three times
\* (1, 2, and 2 again) and uploaded frame 2
C9_Witness ==
    /\ pc = "idle"
    /\ calls = <<"setColorFilter", "setAlpha", "attachToContext",
                 "updateTexImage=NO_ERROR", "updateTexImage=NO_ERROR",
                 "updateTexImage=NO_ERROR", "updateTextureLayer">>
    /\ current.num = 2
    /\ mLayer.texArgs # <<>>
    /\ mLayer.texArgs[1].frame = 2

\* C10: an apply() that refreshes the stream calls updateTextureLayer once if
\* its first pull succeeded and not at all if it failed; an external-stream
\* apply() returns with mUpdateTexImage cleared; and an external-stream
\* apply() that finds mUpdateTexImage cleared pulls no frame.
C10_OneTextureUpdatePerRefresh ==
    [][/\ ApplyReturns =>
             /\ Count(calls', "updateTextureLayer") =
                   (IF FirstPullSucceeded(calls') THEN 1 ELSE 0)
             /\ (mDisplayList = NULL /\ mSurfaceTexture # NULL) => ~mUpdateTexImage'
       /\ (ApplyEnters /\ ~mUpdateTexImage) =>
             /\ Pulls(calls') = 0
             /\ pc' = "idle"
             /\ UNCHANGED streamVars
             /\ mLayer'.texArgs = mLayer.texArgs]_vars

\* C10 witness: a refresh whose first pull failed: one pull, no
\* updateTextureLayer, mUpdateTexImage cleared
C10_Witness ==
    /\ pc = "idle"
    /\ Called(calls, "updateTexImage=NO_BUFFER")
    /\ Pulls(calls) = 1
    /\ ~Called(calls, "updateTextureLayer")
    /\ ~mUpdateTexImage
    /\ mLayer.texArgs = <<>>

\* C11: the force-filter flag handed to updateTextureLayer is true exactly
\* when the stream has a current buffer after the drain and that buffer's
\* width or height differs from mWidth or mHeight; it is false when both are
\* equal and when there is no current buffer.
C11_ForceFilterIffBufferSizeDiffers ==
    [][(pc = "drain" /\ pc' = "idle") =>
          /\ mLayer'.texArgs # <<>>
          /\ mLayer'.texArgs[1].frame = current'.num
          /\ IF current'.buf = NoBuffer
             THEN mLayer'.texArgs[1].forceFilter = FALSE
             ELSE mLayer'.texArgs[1].forceFilter =
                     ~(current'.buf[1] = mWidth /\ current'.buf[2] = mHeight)]_vars

\* C11 witness: the buffer is as wide as the layer is configured but not as
\* high, and updateTextureLayer was given force-filter true
C11_Witness ==
    /\ pc = "idle"
    /\ mLayer.texArgs # <<>>
    /\ mLayer.texArgs[1].forceFilter
    /\ current.buf # NoBuffer
    /\ mLayer.texArgs[1].frame = current.num
    /\ current.buf[1] = mLayer.texArgs[1].width
    /\ current.buf[2] # mLayer.texArgs[1].height

\* C12 as stated: whenever apply() returns, no display list is pending, the
\* dirty rectangle is empty, no transform is pending and both stream flags
\* are false.
C12_AllPendingStateCleared ==
    [][ApplyReturns =>
          /\ mDisplayList' = NULL
          /\ isEmpty(mDirtyRect')
          /\ mTransform' = NULL
          /\ ~mNeedsGLContextAttach'
          /\ ~mUpdateTexImage']_vars

\* C12 amended: whenever apply() returns, no display list is pending; an
\* apply() that found a display list pending leaves the dirty rectangle empty
\* and the pending transform and both stream flags as they were; an apply()
\* that took the external-stream branch leaves the pending transform and both
\* stream flags cleared; an apply() that found neither a display list nor a
\* stream leaves the pending transform and the flags as they were.
C12_PendingStateClearedPerBranch ==
    [][/\ ApplyReturns => mDisplayList' = NULL
       /\ (ApplyEnters /\ mDisplayList # NULL) =>
             /\ isEmpty(mDirtyRect')
             /\ UNCHANGED <<mTransform, mNeedsGLContextAttach, mUpdateTexImage>>
       /\ (ApplyReturns /\ mDisplayList = NULL /\ mSurfaceTexture # NULL) =>
             /\ mTransform' = NULL
             /\ ~mNeedsGLContextAttach'
             /\ ~mUpdateTexImage'
       /\ (ApplyEnters /\ mDisplayList = NULL /\ mSurfaceTexture = NULL) =>
             UNCHANGED <<mTransform, mNeedsGLContextAttach, mUpdateTexImage,
                         mDirtyRect>>]_vars

\* C12 witness: an external-stream apply() has returned after a drain and left
\* nothing pending, having loaded a transform
C12_Witness ==
    /\ pc = "idle"
    /\ Called(calls, "updateTextureLayer")
    /\ Called(calls, "transform.load")
    /\ Called(calls, "attachToContext")
    /\ mTransform = NULL
    /\ ~mNeedsGLContextAttach
    /\ ~mUpdateTexImage
    /\ mDisplayList = NULL

\* a step of one of the mutators
MutatorStep == nCalls' # nCalls

\* C13: a mutator changes nothing of the layer, makes no collaborator call
\* and does not touch the stream; a transform given to setTransform is in the
\* layer only after a later apply().
C13_LayerChangesOnlyInApply ==
    [][/\ MutatorStep =>
             /\ mLayer' = mLayer
             /\ calls' = calls
             /\ attachCount' = attachCount
             /\ UNCHANGED streamVars
       /\ mLayer' # mLayer => (ApplyEnters \/ pc = "drain")
       /\ mLayer'.transform # mLayer.transform =>
             /\ ApplyReturns
             /\ mLayer'.transform = mTransform
             /\ Called(calls', "transform.load")]_vars

\* C13 witness: mutators have set a paint and a transform that the layer does
\* not have yet
C13_Witness ==
    /\ mTransform # NULL
    /\ mLayer.transform # mTransform
    /\ lastPaint # <<>>
    /\ mLayer.colorFilter # mColorFilter
    /\ mLayer.alpha # mAlpha
    /\ mSurfaceTexture # NULL

\* C14: an apply() that finds neither a display list pending nor a stream
\* associated makes the two shared-property calls and no other, changes only
\* the layer's color filter, alpha and mode, leaves the updater and the
\* stream as they were, and returns true.
C14_NothingPendingOnlySharedProperties ==
    [][(ApplyEnters /\ mDisplayList = NULL /\ mSurfaceTexture = NULL) =>
          /\ calls' = <<"setColorFilter", "setAlpha">>
          /\ mLayer' = [mLayer EXCEPT !.colorFilter = mColorFilter,
                                      !.alpha = mAlpha, !.mode = mMode]
          /\ UNCHANGED <<updaterVars, streamVars, attachCount>>
          /\ returned' = "true"
          /\ pc' = "idle"]_vars

\* C14 witness: such an apply() has returned with a transform and a refresh
\* request still pending
C14_Witness ==
    /\ calls = <<"setColorFilter", "setAlpha">>
    /\ returned = "true"
    /\ mSurfaceTexture = NULL
    /\ mTransform # NULL
    /\ mUpdateTexImage
    /\ mLayer.alpha = mAlpha
    /\ lastPaint # <<>>

\* log entries of a pull
PullEntries == {"updateTexImage=NO_ERROR", "updateTexImage=NO_BUFFER"}

\* every entry of the log that is in as comes before every entry that is in bs
AllBefore(log, as, bs) ==
    \A i \in 1..Len(log), j \in 1..Len(log) :
        (log[i] \in as /\ log[j] \in bs) => i < j

\* C17: the calls of one external-stream apply() come in the order
\* attachToContext, updateTexImage (each pull), updateTextureLayer, transform
\* load; and whenever a frame is pulled while mNeedsGLContextAttach was set
\* on entry, attachToContext was called before the pull.
C17_AttachThenDrainThenTransform ==
    [][/\ ApplyReturns =>
             /\ AllBefore(calls', {"attachToContext"}, PullEntries)
             /\ AllBefore(calls', {"attachToContext"}, {"transform.load"})
             /\ AllBefore(calls', PullEntries, {"updateTextureLayer"})
             /\ AllBefore(calls', PullEntries \cup {"updateTextureLayer"},
                          {"transform.load"})
       /\ (ApplyEnters /\ Pulls(calls') > 0) =>
             /\ mNeedsGLContextAttach => Called(calls', "attachToContext")
             /\ AllBefore(calls', {"attachToContext"}, PullEntries)
             /\ ~mNeedsGLContextAttach'
             /\ attachCount' >= 1
       /\ pc = "drain" => (~mNeedsGLContextAttach /\ attachCount >= 1)]_vars

\* C17 witness: one apply() attached, drained and loaded the transform
C17_Witness ==
    /\ pc = "idle"
    /\ calls = <<"setColorFilter", "setAlpha", "attachToContext",
                 "updateTexImage=NO_ERROR", "updateTexImage=NO_BUFFER",
                 "updateTextureLayer", "transform.load">>
    /\ mLayer.transform # NULL

\* C19: an apply() that takes the display-list branch leaves
\* mNeedsGLContextAttach, mUpdateTexImage and mTransform as they were; an
\* apply() that finds a stream and no display list attaches if the attach
\* flag is set, pulls if the refresh flag is set and, when it returns, has
\* loaded the pending transform into the layer.
C19_DeferredStreamWorkIsKept ==
    [][/\ (ApplyEnters /\ mDisplayList # NULL) =>
             UNCHANGED <<mNeedsGLContextAttach, mUpdateTexImage, mTransform,
                         mSurfaceTexture>>
       /\ (ApplyEnters /\ mDisplayList = NULL /\ mSurfaceTexture # NULL) =>
             /\ mNeedsGLContextAttach <=> Called(calls', "attachToContext")
             /\ mUpdateTexImage <=> Pulls(calls') > 0
             /\ pc' = "drain" => mTransform' = mTransform
       /\ (ApplyReturns /\ mDisplayList = NULL /\ mSurfaceTexture # NULL) =>
             /\ mTransform # NULL <=> Called(calls', "transform.load")
             /\ mTransform # NULL => mLayer'.transform = mTransform]_vars

\* C19 witness: a display-list apply() has returned, no mutator was called
\* since it was entered, and the attach, the refresh and a transform are still
\* pending
C19_Witness ==
    /\ pc = "idle"
    /\ returned = "true"
    /\ calls = <<"setColorFilter", "setAlpha", "setBlend", "updateProperties",
                 "updateDeferred">>
    /\ mLayer.deferredList # NULL
    /\ mDisplayList = NULL
    /\ mNeedsGLContextAttach
    /\ mUpdateTexImage
    /\ mTransform # NULL
    /\ untouched

\* C20: an apply() on an updater on which no mutator was called leaves the
\* layer as it was, makes the two shared-property calls and no other, and
\* returns true.
C20_FreshApplyChangesNothing ==
    [][(ApplyEnters /\ nCalls = 0) =>
          /\ mLayer' = mLayer
          /\ mLayer' = InitialLayer
          /\ calls' = <<"setColorFilter", "setAlpha">>
          /\ returned' = "true"
          /\ pc' = "idle"
          /\ UNCHANGED <<updaterVars, attachCount>>]_vars

\* C20 witness: apply() has run on the fresh updater
C20_Witness ==
    /\ nCalls = 0
    /\ applySeq = 1
    /\ returned = "true"
    /\ mLayer = InitialLayer
    /\ calls = <<"setColorFilter", "setAlpha">>

\* C16: while the updater lives it holds one reference on the color filter
\* it mirrors and none on any other filter, and the layer keeps its
\* reference; after the destructor it holds no reference on any filter and
\* the layer's count is one less; and during a setPaint the count of the new
\* filter never reaches zero, also when it is the filter already mirrored.
C16_OneReferenceOnMirroredFilter ==
    /\ \A f \in Filters :
          refs[f] = (IF pc # "destroyed" /\ f = mColorFilter THEN 1 ELSE 0)
    /\ layerRefs = (IF pc = "destroyed" THEN 0 ELSE 1)
    /\ \A i \in 1..Len(assignTrace) : assignTrace[i] >= 1

\* C16 witness: the updater was destroyed after a setPaint that set the
\* filter it already mirrored (the count went to 2, then back to 1)
C16_Witness ==
    /\ pc = "destroyed"
    /\ assignTrace = <<2, 1>>
    /\ mColorFilter = 2
    /\ refs = [f \in Filters |-> 0]
    /\ layerRefs = 0

\* C18: an updateTexImage() call that finds mUpdateTexImage set changes
\* nothing of the updater, the layer or the stream; an external-stream
\* apply() that finds the flag set pulls at least once and clears it, however
\* many calls set it; an apply() calls updateTextureLayer at most once; and an
\* apply() that finds the flag cleared pulls nothing.
C18_MarkIsIdempotent ==
    [][/\ mUpdateTexImage => marks >= 1
       /\ (MutatorStep /\ mUpdateTexImage /\ marks' = marks + 1) =>
             UNCHANGED <<updaterVars, mLayer, streamVars, pc, frameNumber>>
       /\ (MutatorStep /\ marks' # marks) => mUpdateTexImage'
       /\ (ApplyEnters /\ mUpdateTexImage /\ mDisplayList = NULL
             /\ mSurfaceTexture # NULL) =>
             /\ Pulls(calls') >= 1
             /\ ~mUpdateTexImage'
       /\ ApplyReturns => Count(calls', "updateTextureLayer") <= 1
       /\ (ApplyEnters /\ ~mUpdateTexImage) => Pulls(calls') = 0]_vars

\* C18 witness: updateTexImage() was called twice in a row, and the apply()
\* that followed has returned after one texture update with the flag cleared
C18_Witness ==
    /\ pc = "idle"
    /\ untouched
    /\ marks = 2
    /\ ~mUpdateTexImage
    /\ Pulls(calls) >= 1
    /\ Count(calls, "updateTextureLayer") = 1

\* C15: an apply() that has entered the frame-drain loop returns, also when
\* the producer enqueues frames while the loop runs.
C15_ApplyAlwaysReturns ==
    (pc = "drain") ~> (pc = "idle")

====
